---- MODULE Spec2Model ----
(***************************************************************************)
(* elastictools: IndexTools (index manager) and DocTools (document         *)
(* manager), two thin wrappers around an Elasticsearch client.             *)
(*                                                                         *)
(* The module holds these state machines over one set of variables:        *)
(*   SpecMapping  the static mapping helpers of IndexTools applied to a    *)
(*                mapping dict held by the caller;                         *)
(*   SpecBody     DocTools.make_search_body applied to keyword arguments;  *)
(*   Spec         one client calling IndexTools / DocTools operations      *)
(*                against a server, one whole call per step (dump runs     *)
(*                page by page);                                           *)
(*   SpecDump     DocTools.dump page by page while another party inserts   *)
(*                and deletes documents (SpecDumpFair: the same with the   *)
(*                thread that runs dump going on);                         *)
(*   SpecRace     two clients calling create / create_if_not_exists at the *)
(*                same time, one request per step.                         *)
(***************************************************************************)
EXTENDS Integers, Sequences, FiniteSets, TLC

VARIABLES
    es,        \* the server: index name -> NoIndex or the index's state
    es0,       \* the server as it was when the call made last began
    op,        \* the client call made last (operation name and arguments)
    ret,       \* what that call returned or raised
    reqs,      \* the requests that call sent to the server, in order
    again,     \* TRUE iff that call repeats the call before it
    pc,        \* dump: "idle", or "loop" between the total query and the return
    total,     \* dump: local variable total
    _from,     \* dump: local variable _from
    res,       \* dump: local variable res
    file,      \* dump: what the call made last has written to its file
    changes,   \* dump: how often documents came or went since the dump began
    mdict,     \* SpecMapping: the mapping dict in the caller's hands
    mop,       \* SpecMapping: the helper call made last
    mret,      \* SpecMapping: what it returned or raised
    mbefore,   \* SpecMapping: the dict before that call
    mop0,      \* SpecMapping: the helper call made before that
    m0,        \* SpecMapping: the dict before the call before
    kwargs,    \* SpecBody: the keyword arguments of make_search_body
    sbody,     \* SpecBody: what make_search_body returned for them
    clients    \* SpecRace: each client's call, its position in it and its outcome

vars == <<es, es0, op, ret, reqs, again, pc, total, _from, res, file, changes,
          mdict, mop, mret, mbefore, mop0, m0, kwargs, sbody, clients>>

serverVars  == <<es, es0, op, ret, reqs, again>>
dumpVars    == <<pc, total, _from, res, file, changes>>
mappingVars == <<mdict, mop, mret, mbefore, mop0, m0>>
bodyVars    == <<kwargs, sbody>>
raceVars    == <<clients>>

----------------------------------------------------------------------------
(* Python values.  An argument is a tagged value so that None, 0, "" and   *)
(* an empty dict stay distinct while all of them are falsy.                *)

PyNone     == [t |-> "none"]
PyInt(i)   == [t |-> "int", v |-> i]
PyStr(s)   == [t |-> "str", v |-> s]
PyBool(b)  == [t |-> "bool", v |-> b]
PyDict(d)  == [t |-> "dict", v |-> d]
PyList(l)  == [t |-> "list", v |-> l]
EmptyDict  == << >>

\* bool(x) as `if x:` / `if not x:` evaluate it
Truthy(x) ==
    CASE x.t = "none" -> FALSE
      [] x.t = "int"  -> x.v # 0
      [] x.t = "str"  -> x.v # ""
      [] x.t = "bool" -> x.v
      [] x.t = "dict" -> DOMAIN x.v # {}
      [] x.t = "list" -> Len(x.v) # 0

Return(v) == [t |-> "ok", v |-> v]
Raise(e)  == [t |-> "raise", v |-> e]

\* the three ValueErrors the wrappers raise
NotFound   == "ValueError: index not existed"
Conflict   == "ValueError: index already existed"
Validation == "ValueError: There should be exactly one doc_type in a mapping."

\* d[k] = v and d.pop(k) on a dict
DictSet(d, k, v) == [x \in (DOMAIN d) \cup {k} |-> IF x = k THEN v ELSE d[x]]
DictPop(d, k)    == [x \in (DOMAIN d) \ {k} |-> d[x]]

----------------------------------------------------------------------------
(* IndexTools: the static mapping helpers.  Each mutates the dict it is   *)
(* given; an operator returns the dict afterwards and the result.          *)

DocTypes == {"t1", "t2"}
Fields   == {"f", "g"}

mapping_get_doctype_lt(m) ==
    IF Cardinality(DOMAIN m) < 1
    THEN Raise(Validation)
    ELSE Return(CHOOSE key \in DOMAIN m : TRUE)

mapping_get_doctype(m) ==
    IF Cardinality(DOMAIN m) # 1
    THEN Raise(Validation)
    ELSE Return(CHOOSE key \in DOMAIN m : TRUE)

mapping_set_doctype(m, doc_type) ==
    LET k == mapping_get_doctype(m) IN
    IF k.t = "raise" THEN [mapping |-> m, ret |-> k]
    ELSE IF k.v = doc_type THEN [mapping |-> m, ret |-> Return(m)]
    ELSE LET m1 == DictSet(m, doc_type, m[k.v])
             m2 == DictPop(m1, k.v)
         IN  [mapping |-> m2, ret |-> Return(m2)]

\* mapping[key]['properties'] replaced by p
WithProperties(m, key, p) == [m EXCEPT ![key] = [@ EXCEPT !.properties = p]]

mapping_cast(m, property_name, new_type) ==
    IF Cardinality(DOMAIN m) # 1
    THEN [mapping |-> m, ret |-> Raise(Validation)]
    ELSE LET key == CHOOSE k \in DOMAIN m : TRUE
             p   == m[key].properties
         IN  IF property_name \notin DOMAIN p
             THEN [mapping |-> m, ret |-> Return(m)]
             ELSE LET p1 == IF new_type.t = "dict"
                            THEN DictSet(p, property_name, new_type.v)
                            ELSE DictSet(p, property_name,
                                         DictSet(p[property_name], "type", new_type.v))
                      m1 == WithProperties(m, key, p1)
                  IN  [mapping |-> m1, ret |-> Return(m1)]

mapping_rename(m, property_name, new_name) ==
    IF Cardinality(DOMAIN m) # 1
    THEN [mapping |-> m, ret |-> Raise(Validation)]
    ELSE LET key == CHOOSE k \in DOMAIN m : TRUE
             p   == m[key].properties
         IN  IF property_name \notin DOMAIN p
             THEN [mapping |-> m, ret |-> Return(m)]
             ELSE LET p1 == DictSet(p, new_name, p[property_name])
                      p2 == DictPop(p1, property_name)
                      m1 == WithProperties(m, key, p2)
                  IN  [mapping |-> m1, ret |-> Return(m1)]

----------------------------------------------------------------------------
(* The values the variables of a state machine hold while another one runs *)

Names   == {"a", "b"}
NoIndex == [exists |-> FALSE]
NoCall  == [fn |-> "none"]
NoRet   == [t |-> "none"]

ServerIdle ==
    /\ es = [n \in Names |-> NoIndex]
    /\ es0 = es
    /\ op = NoCall
    /\ ret = NoRet
    /\ reqs = << >>
    /\ again = FALSE

DumpIdle ==
    /\ pc = "idle"
    /\ total = 0
    /\ _from = 0
    /\ res = << >>
    /\ file = << >>
    /\ changes = 0

\* the clients that call the wrapper at the same time
Clients == {"c1", "c2"}

RaceIdle ==
    clients = [c \in Clients |-> [pc |-> "idle", call |-> NoCall, ret |-> NoRet,
                                  sent |-> << >>]]

BodyIdle ==
    /\ kwargs = EmptyDict
    /\ sbody = NoRet

----------------------------------------------------------------------------
(* SpecMapping: the helpers applied, one call per step, to a dict that the *)
(* caller keeps between calls.                                             *)

FieldDefs     == {[type |-> "text"], [type |-> "keyword"]}
PropsValues   == UNION {[S -> FieldDefs] : S \in SUBSET Fields}
MappingValues == UNION {[D -> [properties : PropsValues]] : D \in SUBSET DocTypes}

\* new_type of mapping_cast: a type name, or a whole field definition
NewTypes == {PyStr("keyword"), PyDict([type |-> "date", format |-> "basic_date"])}

MappingIdle ==
    /\ mdict = EmptyDict
    /\ mop = NoCall
    /\ mret = NoRet
    /\ mbefore = EmptyDict
    /\ mop0 = NoCall
    /\ m0 = EmptyDict

\* one helper call: the dict is mutated in place, the last two calls are kept
MappingCall(call, r) ==
    /\ mdict' = r.mapping
    /\ mret' = r.ret
    /\ mop' = call
    /\ mbefore' = mdict
    /\ mop0' = mop
    /\ m0' = mbefore
    /\ UNCHANGED <<serverVars, dumpVars, bodyVars, raceVars>>

CallGetDoctype ==
    MappingCall([fn |-> "mapping_get_doctype"],
                [mapping |-> mdict, ret |-> mapping_get_doctype(mdict)])

CallSetDoctype ==
    \E d \in DocTypes :
        MappingCall([fn |-> "mapping_set_doctype", a |-> d],
                    mapping_set_doctype(mdict, d))

CallCast ==
    \E p \in Fields, nt \in NewTypes :
        MappingCall([fn |-> "mapping_cast", a |-> p, b |-> nt],
                    mapping_cast(mdict, p, nt))

CallRename ==
    \E a \in Fields, b \in Fields :
        MappingCall([fn |-> "mapping_rename", a |-> a, b |-> b],
                    mapping_rename(mdict, a, b))


InitMapping ==
    /\ mdict \in MappingValues
    /\ mop = NoCall
    /\ mret = NoRet
    /\ mbefore = mdict
    /\ mop0 = NoCall
    /\ m0 = mdict
    /\ ServerIdle /\ DumpIdle /\ BodyIdle /\ RaceIdle

NextMapping ==
    \/ CallGetDoctype
    \/ CallSetDoctype
    \/ CallCast
    \/ CallRename

SpecMapping == InitMapping /\ [][NextMapping]_vars

\* the property names of the single document type, with their definitions
Properties(m) == m[CHOOSE k \in DOMAIN m : TRUE].properties

(* C7: mapping_get_doctype returns the single top-level key of a mapping   *)
(* that has exactly one key, raises the validation error for a mapping     *)
(* with no key or with two or more keys, and leaves the mapping as it was. *)
C7_GetDoctype ==
    mop.fn = "mapping_get_doctype" =>
        /\ mdict = mbefore
        /\ Cardinality(DOMAIN mbefore) = 1 =>
               /\ mret.t = "ok"
               /\ DOMAIN mbefore = {mret.v}
        /\ Cardinality(DOMAIN mbefore) # 1 => mret = Raise(Validation)

C7_Witness ==
    /\ mop.fn = "mapping_get_doctype"
    /\ Cardinality(DOMAIN mbefore) = 1
    /\ mret = Return("t2")

(* C8: for a mapping with exactly one document type and any field names a  *)
(* and b, mapping_rename(mapping, a, b) followed by                        *)
(* mapping_rename(mapping, b, a) leaves the property names and their       *)
(* definitions as they were before the two calls.                          *)
C8_RenameRoundTrip ==
    ( /\ mop0.fn = "mapping_rename"
      /\ mop.fn = "mapping_rename"
      /\ mop.a = mop0.b
      /\ mop.b = mop0.a
      /\ Cardinality(DOMAIN m0) = 1 )
    => Properties(mdict) = Properties(m0)

----------------------------------------------------------------------------
(* DocTools.make_search_body.  kw maps each keyword argument to the value  *)
(* passed for it, PyNone when the caller leaves it out.  params is None in *)
(* every call modelled, so the body is returned without rendering.         *)

MatchAll == PyDict([match_all |-> EmptyDict])

\* body[clause] = value when the argument is truthy
SetIfTruthy(b, clause, value) ==
    IF Truthy(value) THEN DictSet(b, clause, value) ELSE b

make_search_body(kw) ==
    LET body0 == IF ~Truthy(kw["body"]) THEN EmptyDict ELSE kw["body"].v
        query == IF kw["query"] = PyNone THEN MatchAll ELSE kw["query"]
        b1    == DictSet(body0, "query", query)
        b2    == SetIfTruthy(b1, "_source", kw["_source"])
        b3    == IF Truthy(kw["source_excludes"]) \/ Truthy(kw["source_includes"])
                 THEN LET s0 == IF ~Truthy(kw["_source"]) THEN EmptyDict
                                ELSE kw["_source"].v
                          s1 == SetIfTruthy(s0, "includes", kw["source_includes"])
                          s2 == SetIfTruthy(s1, "excludes", kw["source_excludes"])
                      IN  DictSet(b2, "_source", PyDict(s2))
                 ELSE b2
        b4    == SetIfTruthy(b3, "highlight", kw["highlight"])
        b5    == SetIfTruthy(b4, "aggs", kw["aggs"])
        b6    == SetIfTruthy(b5, "from", kw["from_"])
        b7    == SetIfTruthy(b6, "size", kw["size"])
        b8    == SetIfTruthy(b7, "sort", kw["sort"])
        b9    == SetIfTruthy(b8, "script_fields", kw["script_fields"])
        b10   == SetIfTruthy(b9, "post_filter", kw["post_filter"])
        b11   == SetIfTruthy(b10, "rescore", kw["rescore"])
        b12   == SetIfTruthy(b11, "min_score", kw["min_score"])
        b13   == SetIfTruthy(b12, "collapse", kw["collapse"])
    IN  b13

----------------------------------------------------------------------------
(* SpecBody: the caller chooses keyword arguments one by one, then calls.  *)

MaxProvided == 3

DictArgs == {"highlight", "aggs", "sort", "script_fields", "post_filter",
             "rescore", "collapse"}
IntArgs  == {"from_", "size", "min_score"}
ListArgs == {"source_includes", "source_excludes"}
ArgNames == {"body", "query", "_source"} \cup DictArgs \cup IntArgs \cup ListArgs

\* the values a caller may pass for an argument
ArgValues(k) ==
    CASE k \in IntArgs  -> {PyInt(0), PyInt(2)}
      [] k \in ListArgs -> {PyList(<< >>), PyList(<<"x">>)}
      [] k \in DictArgs -> {PyDict(EmptyDict), PyDict([k1 |-> "v1"])}
      [] k = "query"    -> {PyDict(EmptyDict), PyDict([term |-> "v1"])}
      [] k = "_source"  -> {PyBool(FALSE), PyDict([excludes |-> <<"y">>])}
      [] k = "body"     -> {PyDict(EmptyDict), PyDict([timeout |-> PyStr("1s")])}

\* the clause of the body an argument is written to
Clause(k) ==
    CASE k = "from_" -> "from"
      [] k \in ListArgs -> "_source"
      [] OTHER -> k

NoKwargs == [k \in ArgNames |-> PyNone]
Provided(kw) == {k \in ArgNames : kw[k] # PyNone}

InitBody ==
    /\ kwargs = NoKwargs
    /\ sbody = NoRet
    /\ ServerIdle /\ DumpIdle /\ MappingIdle /\ RaceIdle

Provide ==
    /\ Cardinality(Provided(kwargs)) < MaxProvided
    /\ \E k \in ArgNames \ Provided(kwargs) : \E v \in ArgValues(k) :
           kwargs' = [kwargs EXCEPT ![k] = v]
    /\ sbody' = NoRet
    /\ UNCHANGED <<serverVars, dumpVars, mappingVars, raceVars>>

CallMakeSearchBody ==
    /\ sbody' = Return(make_search_body(kwargs))
    /\ UNCHANGED <<kwargs, serverVars, dumpVars, mappingVars, raceVars>>

NextBody ==
    \/ Provide
    \/ CallMakeSearchBody

SpecBody == InitBody /\ [][NextBody]_vars

\* the clauses a body passed as `body` brings along
GivenClauses(kw) == IF kw["body"] = PyNone THEN {} ELSE DOMAIN kw["body"].v

(* C9: make_search_body without params returns a body whose clauses are    *)
(* exactly query plus the clause of every argument the caller provided     *)
(* (0 included), each carrying the provided value; query is the provided   *)
(* query, or match_all when none is provided.                              *)
C9_ExactlyProvidedClauses ==
    sbody.t = "ok" =>
        LET b == sbody.v IN
        /\ DOMAIN b = {"query"} \cup GivenClauses(kwargs)
                      \cup {Clause(k) : k \in Provided(kwargs) \ {"body"}}
        /\ b["query"] = IF kwargs["query"] = PyNone THEN MatchAll ELSE kwargs["query"]
        /\ \A k \in (DictArgs \cup IntArgs) \cap Provided(kwargs) : b[Clause(k)] = kwargs[k]

----------------------------------------------------------------------------
(* The server, as the wrapped client sees it.  An index that exists has a  *)
(* mapping (document type -> properties), settings and documents; a        *)
(* document is its id, and a search returns the ids in ascending order.    *)
(* Whether an index is open is not kept: close and open are requests only. *)

MaxDocs == 2

Index(m, st, d) == [exists |-> TRUE, mappings |-> m, settings |-> st, docs |-> d]

\* the settings the server adds to every index it creates
ServerAssigned(name) ==
    [creation_date |-> "1541030400000", uuid |-> "u", version |-> "6020099",
     provided_name |-> name]

\* the settings an index has once the server has created it with settings st
Stored(st, name) ==
    [index |-> (IF "index" \in DOMAIN st THEN st["index"] ELSE EmptyDict)
               @@ ServerAssigned(name)]

Req(api, index)          == [api |-> api, index |-> index]
ReqBody(api, index, b)   == [api |-> api, index |-> index, body |-> b]

\* what a call of the wrapper yields: the server afterwards, the requests
\* sent, and the value returned or the exception raised
R(s, q, r) == [es |-> s, reqs |-> q, ret |-> r]

Ack == PyDict([acknowledged |-> TRUE])

\* es.indices.create: a body of None counts as an empty one; the server
\* refuses a name that is taken
ServerCreate(s, n, body) ==
    IF s[n].exists THEN [es |-> s, ret |-> Raise("RequestError: resource_already_exists")]
    ELSE LET b  == body.v
             m  == IF "mappings" \in DOMAIN b /\ b["mappings"].t = "dict"
                   THEN b["mappings"].v ELSE EmptyDict
             st == IF "settings" \in DOMAIN b /\ b["settings"].t = "dict"
                   THEN b["settings"].v ELSE EmptyDict
         IN  [es  |-> [s EXCEPT ![n] = Index(m, Stored(st, n), {})],
              ret |-> Return(Ack)]

\* es.indices.delete(ignore=404)
ServerDelete(s, n) == [s EXCEPT ![n] = NoIndex]

\* es.reindex: copies the documents of source into dest, at most size of them
FirstDocs(d, k) == {i \in d : Cardinality({j \in d : j < i}) < k}
ServerReindex(s, src, dest, size) ==
    IF src = dest \/ ~s[src].exists \/ ~s[dest].exists
    THEN [es |-> s, ret |-> Raise("RequestError: reindex")]
    ELSE LET copied == IF size.t = "int" THEN FirstDocs(s[src].docs, size.v)
                       ELSE s[src].docs
         IN  [es  |-> [s EXCEPT ![dest].docs = @ \cup copied],
              ret |-> Return(Ack)]

----------------------------------------------------------------------------
(* IndexTools: the operations on a named index.                            *)

NotFoundSrc == "ValueError: src_index not existed"

exists(s, index_name) ==
    R(s, <<Req("indices.exists", index_name)>>, Return(PyBool(s[index_name].exists)))

get_info(s, index_name) ==
    LET e == exists(s, index_name) IN
    IF ~e.ret.v.v THEN R(s, e.reqs, Return(PyNone))
    ELSE R(s, e.reqs \o <<Req("indices.get", index_name)>>,
           Return(PyDict([mappings |-> s[index_name].mappings,
                          settings |-> s[index_name].settings])))

get_mapping_raises(s, index_name) ==
    LET e == exists(s, index_name) IN
    IF ~e.ret.v.v THEN R(s, e.reqs, Raise(NotFound))
    ELSE R(s, e.reqs \o <<Req("indices.get_mapping", index_name)>>,
           Return(PyDict(s[index_name].mappings)))

get_mapping(s, index_name) ==
    LET e == exists(s, index_name) IN
    IF ~e.ret.v.v THEN R(s, e.reqs, Return(PyNone))
    ELSE R(s, e.reqs \o <<Req("indices.get_mapping", index_name)>>,
           Return(PyDict(s[index_name].mappings)))

clone_mapping_validates(s, index_name, doc_type) ==
    LET e == exists(s, index_name) IN
    IF ~e.ret.v.v THEN R(s, e.reqs, Raise(NotFound))
    ELSE LET q == e.reqs \o <<Req("indices.get_mapping", index_name)>>
             m == s[index_name].mappings
             k == mapping_get_doctype(m)
         IN  IF k.t = "raise" THEN R(s, q, k)
             ELSE IF Truthy(doc_type)
             THEN R(s, q, Return(PyDict(mapping_set_doctype(m, doc_type.v).mapping)))
             ELSE R(s, q, Return(PyDict(m)))

clone_mapping(s, index_name, doc_type) ==
    LET e == exists(s, index_name) IN
    IF ~e.ret.v.v THEN R(s, e.reqs, Raise(NotFound))
    ELSE LET q == e.reqs \o <<Req("indices.get_mapping", index_name)>>
             m == s[index_name].mappings
         IN  IF Truthy(doc_type)
             THEN LET r == mapping_set_doctype(m, doc_type.v) IN
                  IF r.ret.t = "raise" THEN R(s, q, r.ret)
                  ELSE R(s, q, Return(PyDict(r.mapping)))
             ELSE R(s, q, Return(PyDict(m)))

get_settings(s, index_name) ==
    LET e == exists(s, index_name) IN
    IF ~e.ret.v.v THEN R(s, e.reqs, Return(PyNone))
    ELSE R(s, e.reqs \o <<Req("indices.get_settings", index_name)>>,
           Return(PyDict(s[index_name].settings)))

clone_settings(s, index_name) ==
    LET e == exists(s, index_name) IN
    IF ~e.ret.v.v THEN R(s, e.reqs, Raise(NotFound))
    ELSE LET st == s[index_name].settings
             i1 == DictPop(st["index"], "creation_date")
             i2 == DictPop(i1, "version")
             i3 == DictPop(i2, "uuid")
             i4 == DictPop(i3, "provided_name")
         IN  R(s, e.reqs \o <<Req("indices.get_settings", index_name)>>,
               Return(PyDict([st EXCEPT !["index"] = i4])))

stats(s, index_name) ==
    LET e == exists(s, index_name) IN
    IF ~e.ret.v.v THEN R(s, e.reqs, Return(PyNone))
    ELSE R(s, e.reqs \o <<Req("indices.stats", index_name)>>,
           Return(PyDict([docs |-> Cardinality(s[index_name].docs)])))

delete(s, index_name) ==
    R(ServerDelete(s, index_name), <<Req("indices.delete", index_name)>>, Return(Ack))

create_replaces(s, index_name, body, mapping, settings, overwrite) ==
    LET e  == exists(s, index_name)
        d  == IF e.ret.v.v THEN delete(s, index_name) ELSE R(s, << >>, NoRet)
        b  == IF Truthy(body) THEN body
              ELSE PyDict([settings |-> settings, mappings |-> mapping])
        c  == ServerCreate(d.es, index_name, b)
    IN  R(c.es, e.reqs \o d.reqs \o <<ReqBody("indices.create", index_name, b)>>, c.ret)

create(s, index_name, body, mapping, settings, overwrite) ==
    LET e  == exists(s, index_name)
        d  == IF e.ret.v.v THEN delete(s, index_name) ELSE R(s, << >>, NoRet)
        b  == IF Truthy(body) THEN body
              ELSE PyDict([settings |-> settings, mappings |-> mapping])
        c  == ServerCreate(d.es, index_name, b)
    IN  IF e.ret.v.v /\ ~Truthy(overwrite)
        THEN R(s, e.reqs, Raise(Conflict))
        ELSE R(c.es, e.reqs \o d.reqs \o <<ReqBody("indices.create", index_name, b)>>, c.ret)

create_if_not_exists_overwrites(s, index_name, body, mapping, settings) ==
    create(s, index_name, body, mapping, settings, PyBool(TRUE))

create_if_not_exists(s, index_name, body, mapping, settings) ==
    LET e == exists(s, index_name) IN
    IF e.ret.v.v THEN R(s, e.reqs, Return(PyBool(TRUE)))
    ELSE LET c == create(s, index_name, body, mapping, settings, PyBool(FALSE))
         IN  R(c.es, e.reqs \o c.reqs, c.ret)


\* the body of the reindex request
ReindexBody(src_index, dest_index, size, script) ==
    LET b0 == [source |-> [index |-> src_index], dest |-> [index |-> dest_index]]
        b1 == SetIfTruthy(b0, "size", size)
        b2 == SetIfTruthy(b1, "script", script)
    IN  b2

clone(s, src_index, dest_index, mapping, settings, size, script, overwrite) ==
    LET e  == exists(s, src_index)
        cm == IF ~Truthy(mapping) THEN clone_mapping(s, src_index, PyNone)
              ELSE R(s, << >>, Return(mapping))
        cs == IF ~Truthy(settings) THEN clone_settings(s, src_index)
              ELSE R(s, << >>, Return(settings))
        c  == create(s, dest_index, PyNone, cm.ret.v, cs.ret.v, overwrite)
        q  == e.reqs \o cm.reqs \o cs.reqs \o c.reqs
        b  == ReindexBody(src_index, dest_index, size, script)
        x  == ServerReindex(c.es, src_index, dest_index, IF Truthy(size) THEN size ELSE PyNone)
    IN  IF ~e.ret.v.v THEN R(s, e.reqs, Raise(NotFoundSrc))
        ELSE IF cm.ret.t = "raise" THEN R(s, e.reqs \o cm.reqs, cm.ret)
        ELSE IF cs.ret.t = "raise" THEN R(s, e.reqs \o cm.reqs \o cs.reqs, cs.ret)
        ELSE IF c.ret.t = "raise" THEN R(c.es, q, c.ret)
        ELSE R(x.es, q \o <<ReqBody("reindex", dest_index, b)>>, x.ret)

close(s, index_name) ==
    LET e == exists(s, index_name) IN
    IF ~e.ret.v.v THEN R(s, e.reqs, Raise(NotFound))
    ELSE R(s, e.reqs \o <<Req("indices.close", index_name)>>, Return(Ack))

open(s, index_name) ==
    LET e == exists(s, index_name) IN
    IF ~e.ret.v.v THEN R(s, e.reqs, Raise(NotFound))
    ELSE R(s, e.reqs \o <<Req("indices.open", index_name)>>, Return(Ack))

reopen(s, index_name) ==
    LET e == exists(s, index_name) IN
    IF ~e.ret.v.v THEN R(s, e.reqs, Raise(NotFound))
    ELSE R(s, e.reqs \o <<Req("indices.close", index_name), Req("indices.open", index_name)>>,
           Return(Ack))

refresh(s, index_name) ==
    LET e == exists(s, index_name) IN
    IF ~e.ret.v.v THEN R(s, e.reqs, Raise(NotFound))
    ELSE R(s, e.reqs \o <<Req("indices.refresh", index_name)>>, Return(Ack))

truncate_unchecked(s, index_name) ==
    R(IF s[index_name].exists THEN [s EXCEPT ![index_name].docs = {}] ELSE s,
      <<ReqBody("delete_by_query", index_name, [query |-> MatchAll])>>,
      IF s[index_name].exists THEN Return(Ack) ELSE Raise("NotFoundError: index"))

truncate(s, index_name) ==
    LET e == exists(s, index_name) IN
    IF ~e.ret.v.v THEN R(s, e.reqs, Raise(NotFound))
    ELSE R([s EXCEPT ![index_name].docs = {}],
           e.reqs \o <<ReqBody("delete_by_query", index_name, [query |-> MatchAll])>>,
           Return(Ack))

----------------------------------------------------------------------------
(* DocTools: the operations on the documents of a named index.  Bodies are *)
(* passed without params, so none is rendered.                             *)

\* the documents of an index in the order a search returns them
Sorted(d) == [i \in 1..Cardinality(d) |-> CHOOSE x \in d : Cardinality({y \in d : y < x}) = i - 1]

Min(a, b) == IF a < b THEN a ELSE b

\* es.search: every document matches; from defaults to 0 and size to 10
ServerSearch(s, n, body) ==
    LET b    == body
        off  == IF "from" \in DOMAIN b THEN b["from"].v ELSE 0
        size == IF "size" \in DOMAIN b THEN b["size"].v ELSE 10
        all  == Sorted(s[n].docs)
    IN  [total |-> Len(all), hits |-> SubSeq(all, off + 1, Min(off + size, Len(all)))]

\* IndexTools.mapping_get_doctype(self.indextool().get_mapping(index_name))
Doctype(s, index_name) ==
    LET g == get_mapping(s, index_name) IN
    IF g.ret.t = "raise" THEN g
    ELSE IF g.ret.v = PyNone THEN R(s, g.reqs, Raise("AttributeError"))
    ELSE R(s, g.reqs, mapping_get_doctype(g.ret.v.v))

\* the id the server gives a document indexed without one
NewId(d) == CHOOSE i \in 1..(Cardinality(d) + 1) : i \notin d

DocTools_count(s, index_name, body) ==
    LET e == exists(s, index_name) IN
    IF ~e.ret.v.v THEN R(s, e.reqs, Raise(NotFound))
    ELSE R(s, e.reqs \o <<ReqBody("count", index_name, body)>>,
           Return(PyInt(Cardinality(s[index_name].docs))))

DocTools_index(s, index_name, body, id) ==
    LET e  == exists(s, index_name)
        dt == Doctype(s, index_name)
        i  == IF Truthy(id) THEN id.v ELSE NewId(s[index_name].docs)
    IN  IF ~e.ret.v.v THEN R(s, e.reqs, Raise(NotFound))
        ELSE IF dt.ret.t = "raise" THEN R(s, e.reqs \o dt.reqs, dt.ret)
        ELSE R([s EXCEPT ![index_name].docs = @ \cup {i}],
               e.reqs \o dt.reqs \o
                   <<[api |-> "index", index |-> index_name, body |-> body,
                      doc_type |-> dt.ret.v, id |-> IF Truthy(id) THEN id ELSE PyNone]>>,
               Return(PyDict([_id |-> i])))

DocTools_delete(s, index_name, id) ==
    LET e  == exists(s, index_name)
        dt == Doctype(s, index_name)
        q  == e.reqs \o dt.reqs \o
                  <<[api |-> "delete", index |-> index_name, doc_type |-> dt.ret.v, id |-> id]>>
    IN  IF ~e.ret.v.v THEN R(s, e.reqs, Raise(NotFound))
        ELSE IF dt.ret.t = "raise" THEN R(s, e.reqs \o dt.reqs, dt.ret)
        ELSE IF id.v \notin s[index_name].docs THEN R(s, q, Raise("NotFoundError: document"))
        ELSE R([s EXCEPT ![index_name].docs = @ \ {id.v}], q, Return(Ack))

DocTools_exists(s, index_name, id) ==
    LET e  == exists(s, index_name)
        dt == Doctype(s, index_name)
    IN  IF ~e.ret.v.v THEN R(s, e.reqs, Raise(NotFound))
        ELSE IF dt.ret.t = "raise" THEN R(s, e.reqs \o dt.reqs, dt.ret)
        ELSE R(s, e.reqs \o dt.reqs \o
                   <<[api |-> "exists", index |-> index_name, doc_type |-> dt.ret.v, id |-> id]>>,
               Return(PyBool(id.v \in s[index_name].docs)))

DocTools_get(s, index_name, id, source) ==
    LET e  == exists(s, index_name)
        dt == Doctype(s, index_name)
        q  == e.reqs \o dt.reqs \o
                  <<[api |-> IF Truthy(source) THEN "get_source" ELSE "get",
                     index |-> index_name, doc_type |-> dt.ret.v, id |-> id]>>
    IN  IF ~e.ret.v.v THEN R(s, e.reqs, Raise(NotFound))
        ELSE IF dt.ret.t = "raise" THEN R(s, e.reqs \o dt.reqs, dt.ret)
        ELSE IF id.v \notin s[index_name].docs THEN R(s, q, Raise("NotFoundError: document"))
        ELSE R(s, q, Return(id))

\* the result is the response (total and hits), or the hits alone when
\* source_only is set
DocTools_search(s, index_name, body, source_only) ==
    LET e == exists(s, index_name)
        r == ServerSearch(s, index_name, body)
    IN  IF ~e.ret.v.v THEN R(s, e.reqs, Raise(NotFound))
        ELSE R(s, e.reqs \o <<ReqBody("search", index_name, body)>>,
               Return(IF source_only THEN [hits |-> r.hits] ELSE r))

\* actions is the number of documents to insert
DocTools_bulk(s, index_name, actions, thread_count) ==
    LET e   == exists(s, index_name)
        dt  == Doctype(s, index_name)
        d   == s[index_name].docs
        new == {i \in 1..(Cardinality(d) + actions) : i \notin d}
    IN  IF ~e.ret.v.v THEN R(s, e.reqs, Raise(NotFound))
        ELSE IF dt.ret.t = "raise" THEN R(s, e.reqs \o dt.reqs, dt.ret)
        ELSE R([s EXCEPT ![index_name].docs = @ \cup FirstDocs(new, actions)],
               e.reqs \o dt.reqs \o
                   <<[api |-> "bulk", index |-> index_name, doc_type |-> dt.ret.v,
                      parallel |-> thread_count > 1]>>,
               Return(IF thread_count <= 1 THEN PyInt(actions) ELSE PyList(<< >>)))

----------------------------------------------------------------------------
(* Spec: one client, one call per step.                                    *)

M1 == [t1 |-> [properties |-> [f |-> [type |-> "text"]]]]
M2 == [t1 |-> [properties |-> [f |-> [type |-> "text"]]],
       t2 |-> [properties |-> [g |-> [type |-> "keyword"]]]]
S1 == [index |-> [number_of_shards |-> "2"]]

\* body, mapping and settings as a caller passes them to create
CreateArgs ==
    { [body |-> PyNone, mapping |-> PyNone, settings |-> PyNone],
      [body |-> PyNone, mapping |-> PyDict(M2), settings |-> PyNone],
      [body |-> PyDict([settings |-> PyDict(S1), mappings |-> PyDict(M1)]),
       mapping |-> PyDict(M2), settings |-> PyNone] }

\* mapping, settings, size and script as a caller passes them to clone:
\* all left out, mapping and settings given empty, all given
CloneArgs ==
    { [mapping |-> PyNone, settings |-> PyNone, size |-> PyNone, script |-> PyNone],
      [mapping |-> PyDict(EmptyDict), settings |-> PyDict(EmptyDict),
       size |-> PyNone, script |-> PyNone],
      [mapping |-> PyDict(M1), settings |-> PyDict(S1),
       size |-> PyInt(1), script |-> PyDict([source |-> "ctx.op"])] }

DocTypeArgs   == {PyNone, PyStr(""), PyStr("t1"), PyStr("t2")}
IdArgs        == {PyInt(i) : i \in 1..MaxDocs}
Booleans      == {PyBool(FALSE), PyBool(TRUE)}

\* a whole call of the wrapper: the server moves to r.es, the call is recorded
Call(newop, r) ==
    /\ pc = "idle"
    /\ es' = r.es
    /\ es0' = es
    /\ op' = newop
    /\ ret' = r.ret
    /\ reqs' = r.reqs
    /\ again' = (newop = op)
    /\ file' = << >>
    /\ changes' = 0
    /\ UNCHANGED <<pc, total, _from, res, mappingVars, bodyVars, raceVars>>

\* documents are added only while the index holds fewer than MaxDocs
Room(n) == es[n].exists => Cardinality(es[n].docs) < MaxDocs

Exists ==
    \E n \in Names : Call([fn |-> "exists", index |-> n], exists(es, n))

GetInfo ==
    \E n \in Names : Call([fn |-> "get_info", index |-> n], get_info(es, n))

GetMapping ==
    \E n \in Names : Call([fn |-> "get_mapping", index |-> n], get_mapping(es, n))

CloneMapping ==
    \E n \in Names, dt \in DocTypeArgs :
        Call([fn |-> "clone_mapping", index |-> n, doc_type |-> dt], clone_mapping(es, n, dt))

GetSettings ==
    \E n \in Names : Call([fn |-> "get_settings", index |-> n], get_settings(es, n))

CloneSettings ==
    \E n \in Names : Call([fn |-> "clone_settings", index |-> n], clone_settings(es, n))

Stats ==
    \E n \in Names : Call([fn |-> "stats", index |-> n], stats(es, n))

Create ==
    \E n \in Names, a \in CreateArgs, ow \in Booleans :
        Call([fn |-> "create", index |-> n, body |-> a.body, mapping |-> a.mapping,
              settings |-> a.settings, overwrite |-> ow],
             create(es, n, a.body, a.mapping, a.settings, ow))

CreateIfNotExists ==
    \E n \in Names, a \in CreateArgs :
        Call([fn |-> "create_if_not_exists", index |-> n, body |-> a.body,
              mapping |-> a.mapping, settings |-> a.settings],
             create_if_not_exists(es, n, a.body, a.mapping, a.settings))

Delete ==
    \E n \in Names : Call([fn |-> "delete", index |-> n], delete(es, n))

Clone ==
    \E src \in Names, dest \in Names, a \in CloneArgs, ow \in {PyNone, PyBool(TRUE)} :
        Call([fn |-> "clone", index |-> src, dest |-> dest, overwrite |-> ow] @@ a,
             clone(es, src, dest, a.mapping, a.settings, a.size, a.script, ow))

Close ==
    \E n \in Names : Call([fn |-> "close", index |-> n], close(es, n))

Open ==
    \E n \in Names : Call([fn |-> "open", index |-> n], open(es, n))

Reopen ==
    \E n \in Names : Call([fn |-> "reopen", index |-> n], reopen(es, n))

Refresh ==
    \E n \in Names : Call([fn |-> "refresh", index |-> n], refresh(es, n))

Truncate ==
    \E n \in Names : Call([fn |-> "truncate", index |-> n], truncate(es, n))

DocCount ==
    \E n \in Names :
        Call([fn |-> "DocTools.count", index |-> n],
             DocTools_count(es, n, [query |-> MatchAll]))

DocIndex ==
    \E n \in Names, id \in IdArgs \cup {PyNone} :
        /\ Room(n)
        /\ Call([fn |-> "DocTools.index", index |-> n, id |-> id],
                DocTools_index(es, n, [f |-> "v"], id))

DocDelete ==
    \E n \in Names, id \in IdArgs :
        Call([fn |-> "DocTools.delete", index |-> n, id |-> id], DocTools_delete(es, n, id))

DocExists ==
    \E n \in Names, id \in IdArgs :
        Call([fn |-> "DocTools.exists", index |-> n, id |-> id], DocTools_exists(es, n, id))

DocGet ==
    \E n \in Names, id \in IdArgs, src \in Booleans :
        Call([fn |-> "DocTools.get", index |-> n, id |-> id, source |-> src],
             DocTools_get(es, n, id, src))

DocSearch ==
    \E n \in Names, so \in BOOLEAN :
        Call([fn |-> "DocTools.search", index |-> n, source_only |-> PyBool(so)],
             DocTools_search(es, n, [query |-> MatchAll], so))

DocBulk ==
    \E n \in Names, tc \in {1, 2} :
        /\ Room(n)
        /\ Call([fn |-> "DocTools.bulk", index |-> n, thread_count |-> PyInt(tc)],
                DocTools_bulk(es, n, 1, tc))

----------------------------------------------------------------------------
(* DocTools.dump, one search per step: the total query, then one page per  *)
(* iteration of the while loop, then the return.                           *)

MaxPageSize == 2

DatetimeFrom == PyStr("20181101T000000+07:00")
DatetimeTo   == PyStr("20181107T235959+07:00")

\* the arguments of dump a caller may pass: into memory, to a file, into
\* memory within a time range
DumpArgs ==
    { [query |-> PyNone, datetime_field |-> m.f, datetime_from |-> DatetimeFrom,
       datetime_to |-> DatetimeTo, to_file |-> m.tf, page_size |-> PyInt(p),
       source_includes |-> PyNone, source_excludes |-> PyNone] :
      m \in { [f |-> PyNone, tf |-> PyBool(FALSE)],
              [f |-> PyNone, tf |-> PyStr("out.json")],
              [f |-> PyStr("created_at"), tf |-> PyBool(FALSE)] },
      p \in 1..MaxPageSize }

\* sort and query as dump passes them to make_search_body
DumpSort(a) ==
    IF Truthy(a.datetime_field)
    THEN PyList(<< (a.datetime_field.v :> [order |-> "asc"]) >>)
    ELSE PyNone

DumpQuery(a) ==
    IF Truthy(a.datetime_field)
    THEN PyDict([bool |->
            [must   |-> << IF Truthy(a.query) THEN a.query ELSE MatchAll >>,
             filter |-> << [range |-> ("request_time" :>
                               [gte |-> a.datetime_from, lt |-> a.datetime_to,
                                format |-> "basic_date_time_no_millis"])] >>]])
    ELSE a.query

\* the body of the total query, and of the page at offset off
TotalBody(a) ==
    make_search_body([NoKwargs EXCEPT !["query"] = DumpQuery(a), !["sort"] = DumpSort(a)])

PageBody(a, off) ==
    make_search_body([NoKwargs EXCEPT !["query"] = DumpQuery(a), !["sort"] = DumpSort(a),
                                      !["from_"] = PyInt(off), !["size"] = a.page_size,
                                      !["source_includes"] = a.source_includes,
                                      !["source_excludes"] = a.source_excludes])

\* ',\n'.join(json.dumps(rec) for rec in r): a document is written as its id
RECURSIVE Join(_)
Join(r) ==
    IF Len(r) = 0 THEN << >>
    ELSE IF Len(r) = 1 THEN <<PyInt(r[1])>>
    ELSE <<PyInt(r[1]), PyStr(",\n")>> \o Join(Tail(r))

DumpStart ==
    \E n \in Names, a \in DumpArgs :
        LET newop == [fn |-> "DocTools.dump", index |-> n] @@ a
            e     == exists(es, n)
            r     == DocTools_search(es, n, TotalBody(a), FALSE)
        IN  /\ pc = "idle"
            /\ es0' = es
            /\ op' = newop
            /\ again' = (newop = op)
            /\ changes' = 0
            /\ _from' = 0
            /\ res' = << >>
            /\ IF ~e.ret.v.v
               THEN /\ ret' = Raise(NotFound)
                    /\ reqs' = e.reqs
                    /\ total' = 0
                    /\ file' = << >>
                    /\ pc' = "idle"
               ELSE /\ ret' = NoRet
                    /\ reqs' = e.reqs \o r.reqs
                    /\ total' = r.ret.v.total
                    /\ file' = IF Truthy(a.to_file) THEN <<PyStr("[")>> ELSE << >>
                    /\ pc' = "loop"
            /\ UNCHANGED <<es, mappingVars, bodyVars, raceVars>>

\* while _from < total
LoopCondIncl(off, t) == off <= t

LoopCond(off, t) == off < t

\* (',' if _from<total else ''): what follows a page in the file
PageEndAlways(next, t) == <<PyStr(",")>>

PageEnd(next, t) == IF next < t THEN <<PyStr(",")>> ELSE << >>

\* _from += _size
NextFromSkips(off, size) == off + size + 1

NextFrom(off, size) == off + size

DumpPage ==
    LET r     == DocTools_search(es, op.index, PageBody(op, _from), TRUE)
        next  == NextFrom(_from, op.page_size.v)
    IN  /\ pc = "loop"
        /\ LoopCond(_from, total)
        /\ reqs' = reqs \o r.reqs
        /\ IF r.ret.t = "raise"
           THEN /\ ret' = r.ret
                /\ pc' = "idle"
                /\ total' = 0
                /\ _from' = 0
                /\ res' = << >>
                /\ file' = file
           ELSE /\ _from' = next
                /\ IF Truthy(op.to_file)
                   THEN /\ file' = file \o Join(r.ret.v.hits) \o PageEnd(next, total)
                        /\ res' = res
                   ELSE /\ res' = res \o r.ret.v.hits
                        /\ file' = file
                /\ UNCHANGED <<ret, pc, total>>
        /\ UNCHANGED <<es, es0, op, again, changes, mappingVars, bodyVars, raceVars>>

DumpReturn ==
    /\ pc = "loop"
    /\ ~LoopCond(_from, total)
    /\ pc' = "idle"
    /\ IF Truthy(op.to_file)
       THEN /\ file' = file \o <<PyStr("]")>>
            /\ ret' = Return(PyInt(total))
       ELSE /\ file' = file
            /\ ret' = Return(PyList(res))
    /\ total' = 0
    /\ _from' = 0
    /\ res' = << >>
    /\ UNCHANGED <<es, es0, op, reqs, again, changes, mappingVars, bodyVars, raceVars>>

Init ==
    /\ ServerIdle /\ DumpIdle /\ MappingIdle /\ BodyIdle /\ RaceIdle

Next ==
    \/ Exists
    \/ GetInfo
    \/ GetMapping
    \/ CloneMapping
    \/ GetSettings
    \/ CloneSettings
    \/ Stats
    \/ Create
    \/ CreateIfNotExists
    \/ Delete
    \/ Clone
    \/ Close
    \/ Open
    \/ Reopen
    \/ Refresh
    \/ Truncate
    \/ DocCount
    \/ DocIndex
    \/ DocDelete
    \/ DocExists
    \/ DocGet
    \/ DocSearch
    \/ DocBulk
    \/ DumpStart
    \/ DumpPage
    \/ DumpReturn

Spec == Init /\ [][Next]_vars

----------------------------------------------------------------------------
(* Properties of Spec.  They speak of the call made last: op, the server   *)
(* before it (es0) and after it (es), the requests it sent and its result. *)

\* the requests that change the server
MutatingApis == {"indices.create", "indices.delete", "indices.close", "indices.open",
                 "reindex", "delete_by_query", "index", "delete", "bulk"}
IsMutating(q) == q.api \in MutatingApis
\* the APIs of the mutating requests of the call, in the order sent
MutatingSent == [i \in DOMAIN SelectSeq(reqs, IsMutating) |-> SelectSeq(reqs, IsMutating)[i].api]

Returned == pc = "idle" /\ op.fn # "none"
Absent   == Returned /\ ~es0[op.index].exists
Present  == Returned /\ es0[op.index].exists

\* the operations that raise when the index is absent
RaisingOps == {"clone_mapping", "clone_settings", "clone", "close", "open", "reopen",
               "refresh", "truncate", "DocTools.count", "DocTools.index",
               "DocTools.delete", "DocTools.get", "DocTools.exists", "DocTools.search",
               "DocTools.dump", "DocTools.bulk"}
\* the operations that return None when the index is absent
NoneOps == {"get_info", "get_mapping", "get_settings", "stats"}

IsNotFound(r) == r = Raise(NotFound) \/ r = Raise(NotFoundSrc)

(* C1 as stated: every operation that takes the name of an index (the      *)
(* existence test and the two creating operations apart) fails with the    *)
(* not-found error when the index is absent, and sends no mutating request.*)
C1_Original ==
    (Absent /\ op.fn \in RaisingOps \cup NoneOps \cup {"delete"})
    => (IsNotFound(ret) /\ MutatingSent = << >>)

(* C1 as amended: on an absent index the document operations count, index, *)
(* delete, get, exists, search, dump, bulk and the index operations        *)
(* clone_mapping, clone_settings, clone (absent source), close, open,      *)
(* reopen, refresh, truncate raise the not-found error, send no mutating   *)
(* request and leave the server as it was; get_info, get_mapping,          *)
(* get_settings and stats return None and send no mutating request; delete *)
(* sends its delete request, which the server answers without an error.    *)
C1_NotFoundBeforeMutation ==
    /\ (Absent /\ op.fn \in RaisingOps)
       => (IsNotFound(ret) /\ MutatingSent = << >> /\ es = es0)
    /\ (Absent /\ op.fn \in NoneOps)
       => (ret = Return(PyNone) /\ MutatingSent = << >> /\ es = es0)
    /\ (Absent /\ op.fn = "delete")
       => (ret.t = "ok" /\ MutatingSent = <<"indices.delete">> /\ es = es0)

C1_Witness ==
    /\ Absent
    /\ op.fn = "truncate"
    /\ ret = Raise(NotFound)
    /\ \E n \in Names : es[n].exists /\ es[n].docs # {}

(* C3: create on an existing index without overwrite raises the conflict   *)
(* error, sends neither a delete nor a create and leaves the server as it  *)
(* was; with overwrite it sends a delete and then a create; on an absent   *)
(* index it sends the create alone.                                        *)
C3_Create ==
    (Returned /\ op.fn = "create") =>
        /\ (Present /\ ~Truthy(op.overwrite))
           => (ret = Raise(Conflict) /\ MutatingSent = << >> /\ es = es0)
        /\ (Present /\ Truthy(op.overwrite))
           => MutatingSent = <<"indices.delete", "indices.create">>
        /\ Absent => MutatingSent = <<"indices.create">>
        /\ \A i \in DOMAIN reqs : reqs[i].index = op.index

C3_Witness ==
    /\ Present
    /\ op.fn = "create"
    /\ ~Truthy(op.overwrite)
    /\ ret = Raise(Conflict)
    /\ es[op.index].docs # {}
    /\ es[op.index].mappings = M1

(* C4: create_if_not_exists never raises and returns a true value (True on *)
(* an existing index, the server's answer to the create on an absent one); *)
(* a call that repeats the call before it leaves the server as that call   *)
(* left it, sends no mutating request and returns True.                    *)
C4_Idempotent ==
    (Returned /\ op.fn = "create_if_not_exists") =>
        /\ ret.t = "ok"
        /\ Truthy(ret.v)
        /\ es[op.index].exists
        /\ Present => (ret = Return(PyBool(TRUE)) /\ MutatingSent = << >> /\ es = es0)
        /\ again => Present

C4_Witness ==
    /\ Returned
    /\ op.fn = "create_if_not_exists"
    /\ again
    /\ ret = Return(PyBool(TRUE))
    /\ es = es0

(* C6 as stated: get_mapping and get_settings return the index's mapping   *)
(* or settings when the index exists and raise the not-found error when it *)
(* does not.                                                               *)
C6_Original ==
    /\ (Returned /\ op.fn = "get_mapping") =>
          ret = IF es0[op.index].exists THEN Return(PyDict(es0[op.index].mappings))
                ELSE Raise(NotFound)
    /\ (Returned /\ op.fn = "get_settings") =>
          ret = IF es0[op.index].exists THEN Return(PyDict(es0[op.index].settings))
                ELSE Raise(NotFound)

(* C6 as amended: get_mapping and get_settings return the index's mapping  *)
(* or settings when the index exists and return None, raising nothing,     *)
(* when it does not.                                                       *)
C6_ReturnsNoneWhenAbsent ==
    /\ (Returned /\ op.fn = "get_mapping") =>
          ret = IF es0[op.index].exists THEN Return(PyDict(es0[op.index].mappings))
                ELSE Return(PyNone)
    /\ (Returned /\ op.fn = "get_settings") =>
          ret = IF es0[op.index].exists THEN Return(PyDict(es0[op.index].settings))
                ELSE Return(PyNone)

C6_Witness ==
    /\ Absent
    /\ op.fn = "get_mapping"
    /\ ret = Return(PyNone)

\* the mapping clone_mapping read
Read == es0[op.index].mappings
\* the only key of a mapping with one key
OnlyKey(m) == CHOOSE k \in DOMAIN m : TRUE

(* C10 as stated: clone_mapping on an existing index raises the validation *)
(* error whenever the mapping has no or several document types, whether or *)
(* not new_doc_type is given; for a mapping with one document type it      *)
(* returns a mapping with one key, new_doc_type if given and the original  *)
(* key if not, holding what the original key held.                         *)
C10_Original ==
    (Present /\ op.fn = "clone_mapping") =>
        /\ Cardinality(DOMAIN Read) # 1 => ret = Raise(Validation)
        /\ Cardinality(DOMAIN Read) = 1 =>
              /\ ret.t = "ok"
              /\ DOMAIN ret.v.v = {IF Truthy(op.doc_type) THEN op.doc_type.v ELSE OnlyKey(Read)}
              /\ ret.v.v[OnlyKey(ret.v.v)] = Read[OnlyKey(Read)]

(* C10 as amended: clone_mapping on an existing index raises the           *)
(* validation error when a non-empty new_doc_type is given and the mapping *)
(* has no or several document types; when new_doc_type is left out (or     *)
(* empty) it returns the mapping as it is, whatever the number of its      *)
(* document types; for a mapping with one document type it returns a       *)
(* mapping with one key, new_doc_type if given and the original key if     *)
(* not, holding what the original key held.                                *)
C10_ValidatesOnlyOnRename ==
    (Present /\ op.fn = "clone_mapping") =>
        /\ (Cardinality(DOMAIN Read) # 1 /\ Truthy(op.doc_type)) => ret = Raise(Validation)
        /\ ~Truthy(op.doc_type) => ret = Return(PyDict(Read))
        /\ Cardinality(DOMAIN Read) = 1 =>
              /\ ret.t = "ok"
              /\ DOMAIN ret.v.v = {IF Truthy(op.doc_type) THEN op.doc_type.v ELSE OnlyKey(Read)}
              /\ ret.v.v[OnlyKey(ret.v.v)] = Read[OnlyKey(Read)]

C10_Witness ==
    /\ Present
    /\ op.fn = "clone_mapping"
    /\ op.doc_type = PyNone
    /\ Cardinality(DOMAIN Read) = 2
    /\ ret = Return(PyDict(Read))

\* the server-assigned settings, which a clone must not carry over
ServerKeys == {"creation_date", "uuid", "version", "provided_name"}
Stripped(st) == [index |-> [k \in (DOMAIN st["index"]) \ ServerKeys |-> st["index"][k]]]

CreatesSent   == {i \in DOMAIN reqs : reqs[i].api = "indices.create"}
ReindexesSent == {i \in DOMAIN reqs : reqs[i].api = "reindex"}

\* clone fails before it touches the server when the source is absent or
\* the destination exists and overwrite is not set
CloneMustFail ==
    \/ ~es0[op.index].exists
    \/ es0[op.dest].exists /\ ~Truthy(op.overwrite)

(* C5: clone creates dest with the mapping and settings given (those of    *)
(* src, less the server-assigned settings, for the ones left out) and      *)
(* sends the reindex from src to dest only after that create succeeded;    *)
(* when src is absent, or dest exists and overwrite is not set, it raises, *)
(* creates and deletes nothing and sends no reindex.                       *)
C5_Clone ==
    (Returned /\ op.fn = "clone") =>
        /\ CloneMustFail => (ret.t = "raise" /\ MutatingSent = << >> /\ es = es0)
        /\ \A i \in ReindexesSent :
              /\ \E j \in CreatesSent : j < i /\ reqs[j].index = op.dest
              /\ es[op.dest].exists
              /\ reqs[i].body["source"] = [index |-> op.index]
              /\ reqs[i].body["dest"] = [index |-> op.dest]
        /\ ret.t = "ok" =>
              /\ es[op.dest].mappings =
                     IF op.mapping # PyNone THEN op.mapping.v
                     ELSE es0[op.index].mappings
              /\ es[op.dest].settings =
                     IF op.settings # PyNone THEN Stored(op.settings.v, op.dest)
                     ELSE Stored(Stripped(es0[op.index].settings), op.dest)

(* C5, the part of it that holds: the same with "given" read as truthy, so *)
(* that an empty mapping or empty settings count as left out.              *)
C5_CloneTruthy ==
    (Returned /\ op.fn = "clone") =>
        /\ CloneMustFail => (ret.t = "raise" /\ MutatingSent = << >> /\ es = es0)
        /\ \A i \in ReindexesSent :
              /\ \E j \in CreatesSent : j < i /\ reqs[j].index = op.dest
              /\ es[op.dest].exists
              /\ reqs[i].body["source"] = [index |-> op.index]
              /\ reqs[i].body["dest"] = [index |-> op.dest]
        /\ ret.t = "ok" =>
              /\ es[op.dest].mappings =
                     IF Truthy(op.mapping) THEN op.mapping.v
                     ELSE es0[op.index].mappings
              /\ es[op.dest].settings =
                     IF Truthy(op.settings) THEN Stored(op.settings.v, op.dest)
                     ELSE Stored(Stripped(es0[op.index].settings), op.dest)

----------------------------------------------------------------------------
(* SpecDump: dump runs against an index whose documents another party      *)
(* inserts and deletes between any two of its requests, up to MaxChanges   *)
(* times during one call.                                                  *)

MaxDumpDocs == 3
\* how often the other parties change the index during one call of dump
MaxChanges == 1

\* documents came or went since the dump began
changed == changes > 0

InitDump ==
    /\ \E d \in SUBSET (1..MaxDumpDocs) :
           es = [n \in Names |-> IF n = "a" THEN Index(M1, Stored(EmptyDict, "a"), d)
                                 ELSE NoIndex]
    /\ es0 = es
    /\ op = NoCall
    /\ ret = NoRet
    /\ reqs = << >>
    /\ again = FALSE
    /\ DumpIdle /\ MappingIdle /\ BodyIdle /\ RaceIdle

Insert ==
    \E n \in Names, i \in 1..MaxDumpDocs :
        /\ pc = "loop"
        /\ changes < MaxChanges
        /\ es[n].exists
        /\ i \notin es[n].docs
        /\ es' = [es EXCEPT ![n].docs = @ \cup {i}]
        /\ changes' = changes + 1
        /\ UNCHANGED <<es0, op, ret, reqs, again, pc, total, _from, res, file,
                       mappingVars, bodyVars, raceVars>>

Remove ==
    \E n \in Names, i \in 1..MaxDumpDocs :
        /\ pc = "loop"
        /\ changes < MaxChanges
        /\ es[n].exists
        /\ i \in es[n].docs
        /\ es' = [es EXCEPT ![n].docs = @ \ {i}]
        /\ changes' = changes + 1
        /\ UNCHANGED <<es0, op, ret, reqs, again, pc, total, _from, res, file,
                       mappingVars, bodyVars, raceVars>>

NextDump ==
    \/ DumpStart
    \/ DumpPage
    \/ DumpReturn
    \/ Insert
    \/ Remove

SpecDump == InitDump /\ [][NextDump]_vars

\* dump is one thread of control: while it is in its loop it goes on to the
\* next page or to its return, whatever the other parties do to the index
SpecDumpFair == SpecDump /\ WF_vars(DumpPage) /\ WF_vars(DumpReturn)

IsSearch(q) == q.api = "search"
\* the searches of the while loop: all but the total query
Pages == Tail(SelectSeq(reqs, IsSearch))
\* the offset the server applies to a search
Offset(q) == IF "from" \in DOMAIN q.body THEN q.body["from"].v ELSE 0

DumpDone == Returned /\ op.fn = "DocTools.dump" /\ ret.t = "ok"

(* C2: for an index that holds N documents and does not change during the *)
(* call, and a page_size P >= 1, dump sends ceil(N/P) paged searches, at   *)
(* offsets 0, P, 2P, ... with size P, and returns the N documents, each    *)
(* once and in page order, or the number N when it writes to a file.       *)
C2_DumpPages ==
    (DumpDone /\ ~changed) =>
        LET N == Cardinality(es[op.index].docs)
            P == op.page_size.v
        IN  /\ Len(Pages) = (N + P - 1) \div P
            /\ \A i \in DOMAIN Pages :
                  /\ Offset(Pages[i]) = (i - 1) * P
                  /\ Pages[i].body["size"] = PyInt(P)
            /\ ret = IF Truthy(op.to_file) THEN Return(PyInt(N))
                     ELSE Return(PyList(Sorted(es[op.index].docs)))

C2_Witness ==
    /\ DumpDone
    /\ ~changed
    /\ ~Truthy(op.to_file)
    /\ op.page_size.v = 2
    /\ Len(Pages) = 2
    /\ ret = Return(PyList(<<1, 2, 3>>))

\* the search requests of the call: the total query and the pages
Searches == SelectSeq(reqs, IsSearch)
\* the query the caller gave, or match_all
CallerQuery == IF Truthy(op.query) THEN op.query ELSE MatchAll
\* the range filter over [datetime_from, datetime_to) on field f
RangeOn(f) == [range |-> (f :> [gte |-> op.datetime_from, lt |-> op.datetime_to,
                                format |-> "basic_date_time_no_millis"])]
\* a body sorted ascending by f whose query is the caller's, filtered on field g
SortedFiltered(b, f, g) ==
    /\ "sort" \in DOMAIN b
    /\ b["sort"] = PyList(<< (f :> [order |-> "asc"]) >>)
    /\ b["query"] = PyDict([bool |-> [must |-> <<CallerQuery>>, filter |-> <<RangeOn(g)>>]])

(* C11: when dump is called with a datetime field f, every search it sends *)
(* (the total query and every page) is sorted ascending by f and its query *)
(* keeps the caller's query (or match_all) as the must clause and filters  *)
(* on the range datetime_from <= f < datetime_to of that same field f;     *)
(* without a datetime field the searches carry no sort and the caller's    *)
(* query (or match_all) with no range filter.                              *)
C11_RangeOnDatetimeField ==
    (op.fn = "DocTools.dump") =>
        \A i \in DOMAIN Searches :
            IF Truthy(op.datetime_field)
            THEN SortedFiltered(Searches[i].body, op.datetime_field.v, op.datetime_field.v)
            ELSE /\ "sort" \notin DOMAIN Searches[i].body
                 /\ Searches[i].body["query"] = CallerQuery

(* C11, the part of it that holds: the same with the range filter on the   *)
(* field named request_time, whatever datetime field the caller gave.      *)
C11_RangeOnRequestTime ==
    (op.fn = "DocTools.dump") =>
        \A i \in DOMAIN Searches :
            IF Truthy(op.datetime_field)
            THEN SortedFiltered(Searches[i].body, op.datetime_field.v, "request_time")
            ELSE /\ "sort" \notin DOMAIN Searches[i].body
                 /\ Searches[i].body["query"] = CallerQuery

C11_Reached ==
    /\ DumpDone
    /\ Truthy(op.datetime_field)
    /\ Len(Searches) = 3

\* the separators the file may hold between two documents
Commas == {PyStr(","), PyStr(",\n")}

(* C12: when a dump to a file over an index that does not change, holding  *)
(* N >= 0 documents, returns, the file holds a well-formed JSON array of   *)
(* the N documents in page order: an opening bracket, the documents with   *)
(* exactly one comma between any two consecutive ones (within a page and   *)
(* across pages), no leading or trailing comma, and a closing bracket;     *)
(* "[]" when N = 0.                                                        *)
C12_FileIsJsonArray ==
    (DumpDone /\ ~changed /\ Truthy(op.to_file)) =>
        LET docs == Sorted(es[op.index].docs)
            N    == Len(docs)
        IN  /\ Len(file) = IF N = 0 THEN 2 ELSE 2 * N + 1
            /\ file[1] = PyStr("[")
            /\ file[Len(file)] = PyStr("]")
            /\ \A k \in 1..N : file[2 * k] = PyInt(docs[k])
            /\ \A k \in 1..(N - 1) : file[2 * k + 1] \in Commas

C12_Witness ==
    /\ DumpDone
    /\ ~changed
    /\ op.page_size.v = 2
    /\ file = <<PyStr("["), PyInt(1), PyStr(",\n"), PyInt(2), PyStr(","), PyInt(3), PyStr("]")>>

\* the number of pages a total of t takes at page size p
Ceil(t, p) == (t + p - 1) \div p

\* a step of dump's loop: total is kept as read, a page is requested only
\* below it, and the offset grows by page_size
LoopStep ==
    (pc = "loop" /\ pc' = "loop" /\ <<_from, reqs>> # <<_from, reqs>>')
    => /\ total' = total
       /\ _from < total
       /\ _from' = _from + op.page_size.v
       /\ Len(Pages') = Len(Pages) + 1
       /\ Offset(Pages'[Len(Pages')]) = _from

\* dump enters its loop at offset 0 with no page requested, and leaves it
\* having requested the pages its total takes, none for a total of 0
LoopEnds ==
    /\ (pc = "idle" /\ pc' = "loop") => (_from' = 0 /\ Len(Pages') = 0)
    /\ (pc = "loop" /\ pc' = "idle")
       => (~(_from < total) /\ Len(Pages) = Ceil(total, op.page_size.v) /\ reqs' = reqs)

(* C13: dump ends after finitely many searches for every total and every   *)
(* page_size >= 1, also while documents are added to and removed from the  *)
(* index: the total is read once, the offset starts at 0 and grows by      *)
(* page_size with each page, a page is requested only while the offset is  *)
(* below the total, and no page is requested for a total of 0.             *)
C13_DumpTerminates ==
    /\ [][LoopStep /\ LoopEnds]_vars
    /\ (pc = "loop") ~> (pc = "idle")

C13_Witness ==
    /\ DumpDone
    /\ changed
    /\ op.page_size.v = 1
    /\ Len(Pages) = 3
    /\ Cardinality(es[op.index].docs) = 2

----------------------------------------------------------------------------
(* SpecRace: two clients call create_if_not_exists or create on one server *)
(* at the same time.  Each request of a call is a step of its own, and the *)
(* steps of the two calls interleave in any order.                         *)

\* the calls a client may make; create_if_not_exists passes no overwrite on
RaceCalls ==
    { [fn |-> "create_if_not_exists", index |-> n, overwrite |-> PyBool(FALSE)] @@ a :
      n \in Names, a \in CreateArgs }
    \cup
    { [fn |-> "create", index |-> n, overwrite |-> o] @@ a :
      n \in Names, a \in CreateArgs, o \in Booleans }

\* where create goes after its existence test: `if self.exists(index_name):
\* if not overwrite: raise ...; self.delete(index_name)`
AfterCheckDeletes(found, overwrite) ==
    IF found THEN "delete" ELSE "send"

AfterCheck(found, overwrite) ==
    IF found THEN (IF ~Truthy(overwrite) THEN "raise" ELSE "delete") ELSE "send"

\* the body create sends
CreateBody(call) ==
    IF Truthy(call.body) THEN call.body
    ELSE PyDict([settings |-> call.settings, mappings |-> call.mapping])

\* client c moves to position p, having sent the requests q
Move(c, p, q) ==
    clients' = [clients EXCEPT ![c].pc = p, ![c].sent = @ \o q]
\* client c's call ends with r, having sent the requests q
Done(c, r, q) ==
    clients' = [clients EXCEPT ![c].pc = "done", ![c].ret = r, ![c].sent = @ \o q]

InitRace ==
    /\ es \in { [n \in Names |-> NoIndex],
                [n \in Names |-> IF n = "a" THEN Index(M1, Stored(EmptyDict, "a"), {1})
                                 ELSE NoIndex] }
    /\ es0 = es
    /\ op = NoCall
    /\ ret = NoRet
    /\ reqs = << >>
    /\ again = FALSE
    /\ DumpIdle /\ MappingIdle /\ BodyIdle /\ RaceIdle

\* a client begins a call
RaceCall(c) ==
    \E call \in RaceCalls :
        /\ clients[c].pc = "idle"
        /\ clients' = [clients EXCEPT ![c].call = call,
                          ![c].pc = IF call.fn = "create_if_not_exists" THEN "cine"
                                    ELSE "create"]
        /\ UNCHANGED <<serverVars, dumpVars, mappingVars, bodyVars>>

\* create_if_not_exists: `if self.exists(index_name): return True`, else
\* it calls create
CineCheck(c) ==
    LET e == exists(es, clients[c].call.index)
    IN  /\ clients[c].pc = "cine"
        /\ IF e.ret.v.v THEN Done(c, Return(PyBool(TRUE)), e.reqs)
           ELSE Move(c, "create", e.reqs)
        /\ UNCHANGED <<serverVars, dumpVars, mappingVars, bodyVars>>

\* create: the existence test, and the ValueError when the index exists and
\* overwrite is not set
CreateCheck(c) ==
    LET e    == exists(es, clients[c].call.index)
        next == AfterCheck(e.ret.v.v, clients[c].call.overwrite)
    IN  /\ clients[c].pc = "create"
        /\ IF next = "raise" THEN Done(c, Raise(Conflict), e.reqs)
           ELSE Move(c, next, e.reqs)
        /\ UNCHANGED <<serverVars, dumpVars, mappingVars, bodyVars>>

\* create: self.delete(index_name)
CreateDelete(c) ==
    LET n == clients[c].call.index
    IN  /\ clients[c].pc = "delete"
        /\ es' = ServerDelete(es, n)
        /\ Move(c, "send", <<Req("indices.delete", n)>>)
        /\ UNCHANGED <<es0, op, ret, reqs, again, dumpVars, mappingVars, bodyVars>>

\* create: self._es.indices.create, whose answer or error is the call's
CreateSend(c) ==
    LET n == clients[c].call.index
        b == CreateBody(clients[c].call)
        r == ServerCreate(es, n, b)
    IN  /\ clients[c].pc = "send"
        /\ es' = r.es
        /\ Done(c, r.ret, <<ReqBody("indices.create", n, b)>>)
        /\ UNCHANGED <<es0, op, ret, reqs, again, dumpVars, mappingVars, bodyVars>>

NextRace ==
    \E c \in Clients :
        \/ RaceCall(c)
        \/ CineCheck(c)
        \/ CreateCheck(c)
        \/ CreateDelete(c)
        \/ CreateSend(c)

SpecRace == InitRace /\ [][NextRace]_vars

\* the error of a server that is asked to create an index it holds
ServerRefusal == Raise("RequestError: resource_already_exists")

\* the calls under way or done are made without overwrite
NoOverwrite ==
    \A c \in Clients : clients[c].pc # "idle" => ~Truthy(clients[c].call.overwrite)

SentApi(c, api) == \E i \in DOMAIN clients[c].sent : clients[c].sent[i].api = api
\* the clients whose create request the server accepted
Created(n) ==
    {c \in Clients : /\ clients[c].pc = "done"
                     /\ clients[c].call.index = n
                     /\ SentApi(c, "indices.create")
                     /\ clients[c].ret = Return(Ack)}

\* in every state of two racing calls made without overwrite
RaceState ==
    NoOverwrite =>
        /\ \A c \in Clients : ~SentApi(c, "indices.delete")
        /\ \A n \in Names :
              /\ Cardinality(Created(n)) <= 1
              /\ es0[n].exists => (es[n] = es0[n] /\ Created(n) = {})
        /\ \A c \in Clients :
              clients[c].pc = "done" =>
                  clients[c].ret \in {Return(PyBool(TRUE)), Return(Ack), Raise(Conflict),
                                      ServerRefusal}

\* in every step of two racing calls made without overwrite: an index that
\* exists stays as it is, and a create request that reaches the server
\* after the index came into existence ends its call with the server's error
RaceStep ==
    NoOverwrite' =>
        /\ \A n \in Names : es[n].exists => es'[n] = es[n]
        /\ \A c \in Clients :
              ( /\ clients[c].pc = "send"
                /\ clients'[c].pc = "done"
                /\ es[clients[c].call.index].exists )
              => clients'[c].ret = ServerRefusal

(* C14: when two clients run create_if_not_exists (or create without       *)
(* overwrite) at the same time, the existence test and the create request  *)
(* being steps that interleave in any order and the server refusing to     *)
(* create a name it holds, then neither call sends a delete request, an    *)
(* index that exists is never removed or replaced, at most one of the      *)
(* create requests for a name succeeds, and a call whose test saw the      *)
(* index absent but whose create request arrives second ends with the      *)
(* server's error, not with a flag.                                        *)
C14_RaceKeepsIndex ==
    /\ []RaceState
    /\ [][RaceStep]_vars

C14_Witness ==
    /\ NoOverwrite
    /\ \A c \in Clients : clients[c].pc = "done" /\ clients[c].call.index = "b"
    /\ clients["c1"].call.fn = "create_if_not_exists"
    /\ clients["c2"].call.fn = "create_if_not_exists"
    /\ clients["c1"].ret = ServerRefusal
    /\ clients["c2"].ret = Return(Ack)
    /\ es["b"].exists

====
